---- MODULE Spec2Model ----
(***************************************************************************)
(* Model of the email-marketing backends of this repository:               *)
(*   src/app.py   the database variant (upload, compose, start_campaign    *)
(*                and its background dispatcher send_emails)               *)
(*   src/main.py  the in-memory variant (/api/send, /api/send/bulk, ...)   *)
(* Text is modelled as sequences of one-character strings so that strip,   *)
(* lower and the address pattern are computed, not assumed.                *)
(***************************************************************************)
EXTENDS Integers, Sequences, FiniteSets, TLC

VARIABLES
    today,        \* the current calendar day (datetime.now().date())
    users,        \* app.py  User rows: id -> [plan, is_admin]
    quota,        \* app.py  DailyQuota rows of today: user id -> row or NoRow
    session,      \* app.py  per-login Flask session: user id -> csv_data or NoData
    campaigns,    \* app.py  Campaign rows, id = index
    recipients,   \* app.py  Recipient rows, id = index
    email_log,    \* app.py  EmailLog rows, id = index
    runs,         \* app.py  background threads started by start_campaign
    resp,         \* the last response of /upload, /compose and the in-memory API
    smtp_env,     \* app.py  whether SMTP_EMAIL and SMTP_PASSWORD are set
    csv_in,       \* the file handed to parse_csv / send_bulk
    csv_out,      \* parse_csv's return value
    user_stats,   \* main.py user_stats
    emails_history, \* main.py emails_history
    smtp_accounts,  \* main.py smtp_accounts
    transport,    \* main.py transport calls made by the current request
    smtp,         \* one send_email_smtp call in progress
    letter,       \* app.py  one text being personalised by send_emails
    premium_requests  \* app.py  PremiumRequest rows, id = index

vars == <<today, users, quota, session, campaigns, recipients, email_log, runs,
          smtp_env, resp, csv_in, csv_out, user_stats, emails_history, smtp_accounts,
          transport, smtp, letter, premium_requests>>

dbVars  == <<users, quota, session, campaigns, recipients, email_log, runs, smtp_env>>
csvVars == <<csv_in, csv_out>>
memVars == <<user_stats, emails_history, smtp_accounts, transport>>

----------------------------------------------------------------------------
(* Program constants *)

FREE_QUOTA == 10
PREMIUM_QUOTA == 1000
FREE_LIMIT == 10
PAID_LIMIT == 100

(* Bounds of the model *)

MaxRows == 2        \* rows of an uploaded CSV file
MaxCampaigns == 1   \* Campaign rows ever composed
MaxRuns == 2        \* dispatcher threads ever started
Headroom == 2       \* at most this many sends are left in today's quota initially
MaxDay == 2         \* calendar days of the in-memory variant's run
MaxSends == 2       \* transport calls of the in-memory variant's run
MaxAccounts == 1    \* SMTP accounts added to the in-memory variant
MaxPieces == 2      \* pieces a sample template is put together from
MaxSignups == 2     \* accounts created by /signup
MaxRequests == 2    \* PremiumRequest rows ever created

----------------------------------------------------------------------------
(* Text *)

LowerSeq == <<"a","b","c","d","e","f","g","h","i","j","k","l","m",
              "n","o","p","q","r","s","t","u","v","w","x","y","z">>
UpperSeq == <<"A","B","C","D","E","F","G","H","I","J","K","L","M",
              "N","O","P","Q","R","S","T","U","V","W","X","Y","Z">>
Digits == {"0","1","2","3","4","5","6","7","8","9"}
Letters == {LowerSeq[i] : i \in 1..26} \cup {UpperSeq[i] : i \in 1..26}
Whitespace == {" ", "\t", "\n", "\r"}

\* Python None, as a field value of a csv.DictReader row that is too short
None == <<"None">>

Range(s) == {s[i] : i \in 1..Len(s)}

\* str.lower() on one character
LowerChar(c) ==
    IF \E i \in 1..26 : UpperSeq[i] = c
    THEN LowerSeq[CHOOSE i \in 1..26 : UpperSeq[i] = c]
    ELSE c

\* str.lower()
lower(s) == [i \in 1..Len(s) |-> LowerChar(s[i])]

\* str.strip(): drop leading and trailing whitespace
strip(s) ==
    LET keep == {i \in 1..Len(s) : s[i] \notin Whitespace}
    IN  IF keep = {} THEN <<>>
        ELSE LET lo == CHOOSE i \in keep : \A j \in keep : i <= j
                 hi == CHOOSE i \in keep : \A j \in keep : j <= i
             IN  SubSeq(s, lo, hi)

LocalChars  == Letters \cup Digits \cup {".", "_", "%", "+", "-"}
DomainChars == Letters \cup Digits \cup {".", "-"}

\* re.match(r'^[a-zA-Z0-9._%+-]+@[a-zA-Z0-9.-]+\.[a-zA-Z]{2,}$', email):
\* some '@' at p and some '.' at q split the text into a non-empty local
\* part, a non-empty domain and a top-level part of two or more letters.
\* '$' also matches before one trailing newline.
MatchesPattern(s) ==
    \E p \in 1..Len(s), q \in 1..Len(s) :
        /\ s[p] = "@"
        /\ s[q] = "."
        /\ 1 < p
        /\ p + 1 < q
        /\ q + 2 <= Len(s)
        /\ \A i \in 1..(p - 1) : s[i] \in LocalChars
        /\ \A i \in (p + 1)..(q - 1) : s[i] \in DomainChars
        /\ \A i \in (q + 1)..Len(s) : s[i] \in Letters

validate_email(email) ==
    \/ MatchesPattern(email)
    \/ /\ Len(email) > 0
       /\ email[Len(email)] = "\n"
       /\ MatchesPattern(SubSeq(email, 1, Len(email) - 1))

----------------------------------------------------------------------------
(* parse_csv *)

\* A file is [decodable, cols, rows]: whether its bytes are UTF-8, the
\* header's column names, and the rows csv.DictReader yields.  A row maps
\* every column to text, or to None where the line is too short.
Columns == {"email", "name", "company", "city"}

\* row.get(key, ''): the value under key, '' when the header lacks key
Get(cols, row, key) == IF key \in cols THEN row[key] ELSE <<>>

\* The loop over rows (app.py 185-204), one row per unfolding.  The result is
\* [processed, seen_emails, raised]; raised is set when .strip() meets None.
RECURSIVE ProcessRows(_, _, _, _)
ProcessRows(cols, rows, processed, seen_emails) ==
    IF rows = <<>> THEN [processed |-> processed, raised |-> FALSE]
    ELSE
      LET row == Head(rows)
          raw == Get(cols, row, "email")
      IN  IF raw = None THEN [processed |-> processed, raised |-> TRUE]
          ELSE
            LET email == lower(strip(raw))
            IN  IF email = <<>> THEN ProcessRows(cols, Tail(rows), processed, seen_emails)
                ELSE IF ~validate_email(email)
                     THEN ProcessRows(cols, Tail(rows), processed, seen_emails)
                ELSE IF email \in seen_emails
                     THEN ProcessRows(cols, Tail(rows), processed, seen_emails)
                ELSE IF \E k \in {"name", "company", "city"} : Get(cols, row, k) = None
                     THEN [processed |-> processed, raised |-> TRUE]
                ELSE ProcessRows(cols, Tail(rows),
                        Append(processed,
                               [email   |-> email,
                                name    |-> strip(Get(cols, row, "name")),
                                company |-> strip(Get(cols, row, "company")),
                                city    |-> strip(Get(cols, row, "city"))]),
                        seen_emails \cup {email})

\* parse_csv(file) -> (rows, message)
\* message is the text, with the number it names (f"Found {n} valid emails")
parse_csv(file) ==
    IF ~file.decodable THEN [rows |-> <<>>, message |-> "Error parsing CSV", n |-> 0]
    ELSE IF file.rows = <<>> THEN [rows |-> <<>>, message |-> "CSV file is empty", n |-> 0]
    ELSE IF "email" \notin file.cols
         THEN [rows |-> <<>>, message |-> "Missing required column: email", n |-> 0]
    ELSE LET r == ProcessRows(file.cols, file.rows, <<>>, {})
         IN  IF r.raised THEN [rows |-> <<>>, message |-> "Error parsing CSV", n |-> 0]
             ELSE [rows |-> r.processed, message |-> "Found valid emails",
                   n |-> Len(r.processed)]

----------------------------------------------------------------------------
(* Sample inputs *)

\* the i-th well-formed sample address: a@x.co, b@x.co, ...
Addr(i) == <<LowerSeq[i], "@", "x", ".", "c", "o">>

EmailSamples ==
    { Addr(1), Addr(2),
      <<" ", "A", "@", "x", ".", "c", "o", " ">>,   \* a@x.co once trimmed and lowered
      <<"b", "a", "d">>,                             \* no '@'
      <<"a", "@", "x", ".", "c">>,                   \* top-level part too short
      <<" ">>,                                       \* blank
      None }                                         \* the line has no such field

NameSamples == { <<>>, <<" ", "n">>, None }

RowSamples ==
    [email : EmailSamples, name : NameSamples, company : {<<>>}, city : {<<>>}]

ColSamples == { {"email"}, {"email", "name"}, {"name"} }

RECURSIVE SeqsUpTo(_, _)
SeqsUpTo(S, n) ==
    IF n = 0 THEN {<<>>}
    ELSE LET shorter == SeqsUpTo(S, n - 1)
         IN  shorter \cup {Append(q, x) : q \in {t \in shorter : Len(t) = n - 1}, x \in S}

\* csv.DictReader skips a line with no field at all, so every row it yields
\* holds at least one of the header's columns
Files ==
    { f \in [decodable : BOOLEAN, cols : ColSamples, rows : SeqsUpTo(RowSamples, MaxRows)] :
        \A i \in 1..Len(f.rows) : \E k \in f.cols : f.rows[i][k] # None }

Row(email) == [email |-> email, name |-> <<>>, company |-> <<>>, city |-> <<>>]

FileOf(rows) == [decodable |-> TRUE, cols |-> {"email"}, rows |-> rows]

\* The files the database variant's upload is tried with: n distinct
\* well-formed rows for n up to MaxRows, a repeated address, and files with
\* no valid row (empty, malformed only, not UTF-8, no email column).
UploadFiles ==
    {FileOf([i \in 1..n |-> Row(Addr(i))]) : n \in 0..MaxRows}
    \cup {FileOf(<<Row(Addr(1)), Row(<<" ", "A", "@", "x", ".", "c", "o", " ">>)>>),
          FileOf(<<Row(<<"b", "a", "d">>)>>),
          [decodable |-> FALSE, cols |-> {"email"}, rows |-> <<Row(Addr(1))>>],
          [decodable |-> TRUE, cols |-> {"name"}, rows |-> <<Row(Addr(1))>>]}

----------------------------------------------------------------------------
(* The database variant, src/app.py *)

UserIds == {1, 2}       \* 1 is the admin init_db seeds, 2 signed up

NoData == [has |-> FALSE, data |-> <<>>]     \* 'csv_data' not in session

\* a response: the handler, the status code, and what is flashed or returned
Response(op, code, category, text, n) ==
    [op |-> op, code |-> code, category |-> category, text |-> text, n |-> n]

NoResp == Response("none", 0, "", "", 0)

TransportError == "smtp error"          \* str(e) of a failed transport call
SimulatedError == "Simulated failure"
ExceptionText  == "exception"           \* str(e) of an unexpected exception

\* limit = FREE_QUOTA if self.plan == 'free' else PREMIUM_QUOTA
LimitOf(plan) == IF plan = "free" THEN FREE_QUOTA ELSE PREMIUM_QUOTA

\* User.get_daily_quota: today's row, created with zero counters when absent
QuotaAfterGet(u) ==
    IF quota[u].present THEN quota
    ELSE [quota EXCEPT ![u] = [present |-> TRUE, sent_count |-> 0, failed_count |-> 0]]

get_daily_quota(u) == QuotaAfterGet(u)[u]

\* User.can_send_email
can_send_email_off_by_one(u) == get_daily_quota(u).sent_count <= LimitOf(users[u].plan)

can_send_email(u) == get_daily_quota(u).sent_count < LimitOf(users[u].plan)

\* User.get_remaining_quota
get_remaining_quota(u) ==
    LET left == LimitOf(users[u].plan) - get_daily_quota(u).sent_count
    IN  IF left > 0 THEN left ELSE 0

\* rows[:n]
Take(rows, n) == SubSeq(rows, 1, IF n < Len(rows) THEN n ELSE Len(rows))

\* POST /upload without a usable file part (app.py 386-397)
UploadNoFile(u) ==
    /\ resp' = Response("upload", 302, "danger", "No file selected", 0)
    /\ UNCHANGED <<today, dbVars, csvVars, memVars, smtp, letter, premium_requests>>

\* rows, message = parse_csv(file), for each file the upload is tried with
ParsedUploads == [f \in UploadFiles |-> parse_csv(f)]

\* POST /upload with a .csv file (app.py 399-416)
UploadStoresFirst(u, file) ==
    LET parsed == ParsedUploads[file]
    IN  /\ session' = [session EXCEPT ![u] = [has |-> TRUE, data |-> parsed.rows]]
        /\ resp' = IF parsed.rows = <<>>
                   THEN Response("upload", 302, "danger", parsed.message, parsed.n)
                   ELSE Response("upload", 302, "success", "Successfully loaded", Len(parsed.rows))
        /\ UNCHANGED <<today, users, quota, campaigns, recipients, email_log, runs, smtp_env,
                       csvVars, memVars, smtp, letter, premium_requests>>

Upload(u, file) ==
    LET parsed == ParsedUploads[file]
        rows == parsed.rows
        left == get_remaining_quota(u)
        kept == IF Len(rows) > left THEN Take(rows, left) ELSE rows
    IN  IF rows = <<>>
        THEN /\ resp' = Response("upload", 302, "danger", parsed.message, parsed.n)
             /\ UNCHANGED <<today, dbVars, csvVars, memVars, smtp, letter, premium_requests>>
        ELSE /\ quota' = QuotaAfterGet(u)
             /\ session' = [session EXCEPT ![u] = [has |-> TRUE, data |-> kept]]
             /\ resp' = Response("upload", 302, "success", "Successfully loaded", Len(kept))
             /\ UNCHANGED <<today, users, campaigns, recipients, email_log, runs, smtp_env,
                            csvVars, memVars, smtp, letter, premium_requests>>

\* Recipient rows for the rows of csv_data (app.py 455-463)
NewRecipients(cid, data) ==
    [i \in 1..Len(data) |->
        [campaign_id |-> cid, email |-> data[i].email, status |-> "pending", error |-> ""]]

\* the Campaign row of app.py 444-450
NewCampaign(u, data) ==
    [user_id |-> u, status |-> "draft", total_recipients |-> Len(data),
     sent_count |-> 0, failed_count |-> 0, started_at |-> FALSE, completed_at |-> FALSE]

\* POST /compose (app.py 435-472)
Compose(u) ==
    IF ~session[u].has
    THEN /\ resp' = Response("compose", 302, "warning", "Please upload a CSV file first", 0)
         /\ UNCHANGED <<today, dbVars, csvVars, memVars, smtp, letter, premium_requests>>
    ELSE /\ Len(campaigns) < MaxCampaigns
         /\ campaigns' = Append(campaigns, NewCampaign(u, session[u].data))
         /\ recipients' = recipients \o NewRecipients(Len(campaigns) + 1, session[u].data)
         /\ session' = [session EXCEPT ![u] = NoData]
         /\ resp' = Response("compose", 302, "success", "Campaign created successfully!", 0)
         /\ UNCHANGED <<today, users, quota, email_log, runs, smtp_env, csvVars, memVars, smtp, letter, premium_requests>>

Finished(run) == run.pc \in {"done", "crashed"}

\* The thread start_campaign launches, before it has run a step.  The last
\* fields record the run's history for the properties: the quota left and
\* the campaign's failed_count when it was started (k0, f0), the length of
\* its recipient list (n0), the recipients it submitted (attempted), those
\* whose submission was reported ok (ok) or failed (refused), those the
\* exception handler ran for (raised), how often it committed an increment
\* of the quota's sent_count (q_used), and whether no other thread was
\* active during its life (solo).
NewRun(u, id) ==
    [pc |-> "start", user |-> u, cid |-> id, list |-> <<>>, i |-> 1,
     success |-> FALSE, error |-> "",
     r_status |-> "", r_error |-> "", c_sent |-> -1, c_failed |-> -1,
     q_sent |-> -1, q_failed |-> -1, logs |-> <<>>,
     k0 |-> get_remaining_quota(u), f0 |-> campaigns[id].failed_count, n0 |-> 0,
     attempted |-> {}, ok |-> {}, refused |-> {}, raised |-> {}, q_used |-> 0,
     solo |-> \A r \in 1..Len(runs) : Finished(runs[r])]

\* the status code start_campaign answers with (app.py 521-527, 644-648)
StartResponse(u, id) ==
    IF id \notin 1..Len(campaigns) THEN 404
    ELSE IF campaigns[id].user_id # u THEN 403
    ELSE IF ~can_send_email(u) THEN 400
    ELSE 200

\* a start_campaign that assigns 'queued' and started_at before the quota test
StartEffectQueuesFirst(u, id) ==
    IF id \notin 1..Len(campaigns)
    THEN UNCHANGED <<today, dbVars, csvVars, memVars, smtp, letter, premium_requests>>
    ELSE IF campaigns[id].user_id # u
    THEN UNCHANGED <<today, dbVars, csvVars, memVars, smtp, letter, premium_requests>>
    ELSE IF ~can_send_email(u)
    THEN /\ quota' = QuotaAfterGet(u)
         /\ campaigns' = [campaigns EXCEPT ![id].status = "queued", ![id].started_at = TRUE]
         /\ UNCHANGED <<today, users, session, recipients, email_log, runs,
                        smtp_env, csvVars, memVars, smtp, letter, premium_requests>>
    ELSE /\ Len(runs) < MaxRuns
         /\ quota' = QuotaAfterGet(u)
         /\ campaigns' = [campaigns EXCEPT ![id].status = "queued", ![id].started_at = TRUE]
         /\ runs' = Append([r \in 1..Len(runs) |-> [runs[r] EXCEPT !.solo = @ /\ Finished(runs[r])]],
                           NewRun(u, id))
         /\ UNCHANGED <<today, users, session, recipients, email_log, smtp_env,
                        csvVars, memVars, smtp, letter, premium_requests>>

\* GET /campaign/<id>/start (app.py 519-642): what the handler does to the
\* rows; the thread is launched as its last effect
StartEffect(u, id) ==
    IF id \notin 1..Len(campaigns)
    THEN UNCHANGED <<today, dbVars, csvVars, memVars, smtp, letter, premium_requests>>
    ELSE IF campaigns[id].user_id # u
    THEN UNCHANGED <<today, dbVars, csvVars, memVars, smtp, letter, premium_requests>>
    ELSE IF ~can_send_email(u)
    THEN /\ quota' = QuotaAfterGet(u)
         /\ UNCHANGED <<today, users, session, campaigns, recipients, email_log, runs,
                        smtp_env, csvVars, memVars, smtp, letter, premium_requests>>
    ELSE /\ Len(runs) < MaxRuns
         /\ quota' = QuotaAfterGet(u)
         /\ campaigns' = [campaigns EXCEPT ![id].status = "queued", ![id].started_at = TRUE]
         /\ runs' = Append([r \in 1..Len(runs) |-> [runs[r] EXCEPT !.solo = @ /\ Finished(runs[r])]],
                           NewRun(u, id))
         /\ UNCHANGED <<today, users, session, recipients, email_log, smtp_env,
                        csvVars, memVars, smtp, letter, premium_requests>>

\* the handler as the dispatcher's specifications see it: the answer, which
\* is StartResponse, is not kept
start_campaign(u, id) == StartEffect(u, id) /\ UNCHANGED resp

\* the handler together with the answer it returns (app.py 524, 527, 644-648)
StartRequest(u, id) ==
    /\ StartEffect(u, id)
    /\ resp' = Response("start_campaign", StartResponse(u, id), "",
                        CASE StartResponse(u, id) = 403 -> "Unauthorized"
                          [] StartResponse(u, id) = 400 -> "Daily quota exceeded"
                          [] StartResponse(u, id) = 404 -> "Not Found"
                          [] OTHER -> "Campaign started", id)

----------------------------------------------------------------------------
(* The dispatcher thread send_emails, src/app.py 535-640.                  *)
(* Rows are shared by all threads.  What a thread has assigned to its ORM  *)
(* objects since its last commit (r_status, r_error, c_sent, c_failed,     *)
(* q_sent, q_failed, logs) reaches the rows when it commits.               *)

SetRun(r, run) == runs' = [runs EXCEPT ![r] = run]

\* Recipient.query.filter_by(campaign_id=id, status='pending').all()
PendingOf(id) ==
    LET ids == [i \in 1..Len(recipients) |-> i]
    IN  SelectSeq(ids, LAMBDA i : recipients[i].campaign_id = id /\ recipients[i].status = "pending")

\* the run with nothing assigned since its last commit
Clean(run) ==
    [run EXCEPT !.r_status = "", !.r_error = "", !.c_sent = -1, !.c_failed = -1,
                !.q_sent = -1, !.q_failed = -1, !.logs = <<>>]

\* the next iteration of "for recipient in recipients"
NextRecipient(run) ==
    [Clean(run) EXCEPT !.i = run.i + 1,
                       !.pc = IF run.i + 1 > Len(run.list) THEN "finish" ELSE "check"]

\* db.session.commit(): the thread's assignments reach the rows
Flush(run) ==
    LET rid == run.list[run.i]
    IN  /\ recipients' =
              IF run.r_status = "" THEN recipients
              ELSE [recipients EXCEPT ![rid].status = run.r_status,
                                      ![rid].error = run.r_error]
        /\ campaigns' =
              [campaigns EXCEPT
                  ![run.cid].sent_count = IF run.c_sent >= 0 THEN run.c_sent ELSE @,
                  ![run.cid].failed_count = IF run.c_failed >= 0 THEN run.c_failed ELSE @]
        /\ quota' =
              [quota EXCEPT
                  ![run.user].sent_count = IF run.q_sent >= 0 THEN run.q_sent ELSE @,
                  ![run.user].failed_count = IF run.q_failed >= 0 THEN run.q_failed ELSE @]
        /\ email_log' = email_log \o run.logs

\* app.py 537-546: status 'sending', then the pending recipients are loaded
RunBegin(r) ==
    LET run == runs[r]
        list == PendingOf(run.cid)
    IN  /\ run.pc = "start"
        /\ campaigns' = [campaigns EXCEPT ![run.cid].status = "sending"]
        /\ SetRun(r, [run EXCEPT !.list = list, !.n0 = Len(list),
                                 !.pc = IF list = <<>> THEN "finish" ELSE "check"])
        /\ UNCHANGED <<today, users, quota, session, recipients, email_log, smtp_env,
                       resp, csvVars, memVars, smtp, letter, premium_requests>>

\* app.py 551-554: the quota check; exhausted -> 'paused' and break
RunCheck(r) ==
    LET run == runs[r]
    IN  /\ run.pc = "check"
        /\ \/ /\ SetRun(r, [run EXCEPT !.pc = "except"])       \* the lookup raises
              /\ UNCHANGED <<quota, campaigns>>
           \/ /\ can_send_email(run.user)
              /\ quota' = QuotaAfterGet(run.user)
              /\ SetRun(r, [run EXCEPT !.pc = "render"])
              /\ UNCHANGED campaigns
           \/ /\ ~can_send_email(run.user)
              /\ quota' = QuotaAfterGet(run.user)
              /\ campaigns' = [campaigns EXCEPT ![run.cid].status = "paused"]
              /\ SetRun(r, [run EXCEPT !.pc = "finish"])
        /\ UNCHANGED <<today, users, session, recipients, email_log, smtp_env,
                       resp, csvVars, memVars, smtp, letter, premium_requests>>

\* a personalisation after which the submission is left out and taken as ok
RunRenderSkipsSend(r) ==
    LET run == runs[r]
    IN  /\ run.pc = "render"
        /\ \/ SetRun(r, [run EXCEPT !.pc = "except"])
           \/ SetRun(r, [run EXCEPT !.pc = "update", !.success = TRUE])
        /\ UNCHANGED <<today, users, quota, session, campaigns, recipients, email_log,
                       smtp_env, resp, csvVars, memVars, smtp, letter, premium_requests>>

\* app.py 557-572: the template is personalised.  request.host is read in a
\* thread that holds no request context unless the runtime hands the
\* starting thread's context on, so the step raises or not by the build.
RunRender(r) ==
    LET run == runs[r]
    IN  /\ run.pc = "render"
        /\ \/ SetRun(r, [run EXCEPT !.pc = "except"])
           \/ SetRun(r, [run EXCEPT !.pc = "send"])
        /\ UNCHANGED <<today, users, quota, session, campaigns, recipients, email_log,
                       smtp_env, resp, csvVars, memVars, smtp, letter, premium_requests>>

\* app.py 575-587: one submission, by send_email_smtp or simulated; pc =
\* "send" is the call in progress and this step is its return
RunSend(r) ==
    LET run == runs[r]
    IN  /\ run.pc = "send"
        /\ \E ok \in BOOLEAN :
              SetRun(r, [run EXCEPT !.pc = "update", !.success = ok,
                                    !.error = IF ok THEN ""
                                              ELSE IF smtp_env THEN TransportError
                                              ELSE SimulatedError,
                                    !.attempted = @ \cup {run.list[run.i]},
                                    !.ok = IF ok THEN @ \cup {run.list[run.i]} ELSE @,
                                    !.refused = IF ok THEN @ ELSE @ \cup {run.list[run.i]}])
        /\ UNCHANGED <<today, users, quota, session, campaigns, recipients, email_log,
                       smtp_env, resp, csvVars, memVars, smtp, letter, premium_requests>>

\* the EmailLog entry of app.py 596-601 and 609-615
LogEntry(run) ==
    [user_id |-> run.user, recipient |-> recipients[run.list[run.i]].email,
     status |-> IF run.success THEN "sent" ELSE "failed", error |-> run.error]

\* app.py 590-616: the recipient and the campaign counter are assigned
RunUpdateCountsBoth(r) ==
    LET run == runs[r]
        c == campaigns[run.cid]
    IN  /\ run.pc = "update"
        /\ SetRun(r, [run EXCEPT !.pc = "quota",
                                 !.r_status = IF run.success THEN "sent" ELSE "failed",
                                 !.r_error = run.error,
                                 !.c_sent = c.sent_count + 1,
                                 !.c_failed = c.failed_count + 1,
                                 !.logs = Append(@, LogEntry(run))])
        /\ UNCHANGED <<today, users, quota, session, campaigns, recipients, email_log,
                       smtp_env, resp, csvVars, memVars, smtp, letter, premium_requests>>

RunUpdate(r) ==
    LET run == runs[r]
        c == campaigns[run.cid]
    IN  /\ run.pc = "update"
        /\ SetRun(r, [run EXCEPT !.pc = "quota",
                                 !.r_status = IF run.success THEN "sent" ELSE "failed",
                                 !.r_error = run.error,
                                 !.c_sent = IF run.success THEN c.sent_count + 1 ELSE @,
                                 !.c_failed = IF run.success THEN @ ELSE c.failed_count + 1,
                                 !.logs = Append(@, LogEntry(run))])
        /\ UNCHANGED <<today, users, quota, session, campaigns, recipients, email_log,
                       smtp_env, resp, csvVars, memVars, smtp, letter, premium_requests>>

\* app.py 619-623: today's quota row is looked up and its counter assigned
RunQuota(r) ==
    LET run == runs[r]
        q == get_daily_quota(run.user)
    IN  /\ run.pc = "quota"
        /\ \/ /\ SetRun(r, [run EXCEPT !.pc = "except"])       \* the lookup raises
              /\ UNCHANGED quota
           \/ /\ quota' = QuotaAfterGet(run.user)
              /\ SetRun(r, [run EXCEPT !.pc = "commit",
                                       !.q_sent = IF run.success THEN q.sent_count + 1 ELSE @,
                                       !.q_failed = IF run.success THEN @ ELSE q.failed_count + 1])
        /\ UNCHANGED <<today, users, session, campaigns, recipients, email_log, smtp_env,
                       resp, csvVars, memVars, smtp, letter, premium_requests>>

\* app.py 625-628: commit, then the pacing sleep
RunCommit(r) ==
    LET run == runs[r]
    IN  /\ run.pc = "commit"
        /\ \/ /\ SetRun(r, [run EXCEPT !.pc = "except"])       \* the commit raises
              /\ UNCHANGED <<quota, campaigns, recipients, email_log>>
           \/ /\ Flush(run)
              /\ SetRun(r, NextRecipient([run EXCEPT !.q_used = IF run.q_sent >= 0 THEN @ + 1 ELSE @]))
        /\ UNCHANGED <<today, users, session, smtp_env, resp, csvVars, memVars, smtp, letter, premium_requests>>

\* app.py 630-634: the handler marks the recipient failed, counts it and
\* commits; a raise inside the handler ends the thread
RunExcept(r) ==
    LET run == runs[r]
        c == campaigns[run.cid]
        failed == [run EXCEPT !.r_status = "failed", !.r_error = ExceptionText,
                              !.c_failed = (IF run.c_failed >= 0 THEN run.c_failed
                                            ELSE c.failed_count) + 1,
                              !.raised = @ \cup {run.list[run.i]}]
    IN  /\ run.pc = "except"
        /\ \/ /\ SetRun(r, [Clean(run) EXCEPT !.pc = "crashed"])
              /\ UNCHANGED <<quota, campaigns, recipients, email_log>>
           \/ /\ Flush(failed)
              /\ SetRun(r, NextRecipient([failed EXCEPT !.q_used = IF run.q_sent >= 0 THEN @ + 1 ELSE @]))
        /\ UNCHANGED <<today, users, session, smtp_env, resp, csvVars, memVars, smtp, letter, premium_requests>>

\* app.py 637-640: 'completed' unless the campaign reads 'paused'
RunFinish(r) ==
    LET run == runs[r]
    IN  /\ run.pc = "finish"
        /\ campaigns' =
              IF campaigns[run.cid].status # "paused"
              THEN [campaigns EXCEPT ![run.cid].status = "completed",
                                     ![run.cid].completed_at = TRUE]
              ELSE campaigns
        /\ SetRun(r, [run EXCEPT !.pc = "done"])
        /\ UNCHANGED <<today, users, quota, session, recipients, email_log, smtp_env,
                       resp, csvVars, memVars, smtp, letter, premium_requests>>

send_emails(r) ==
    \/ RunBegin(r)
    \/ RunCheck(r)
    \/ RunRender(r)
    \/ RunSend(r)
    \/ RunUpdate(r)
    \/ RunQuota(r)
    \/ RunCommit(r)
    \/ RunExcept(r)
    \/ RunFinish(r)

----------------------------------------------------------------------------
(* Values of the variables a specification does not use *)

IdleDb ==
    /\ users = [u \in UserIds |-> [plan |-> "free", is_admin |-> FALSE]]
    /\ quota = [u \in UserIds |-> [present |-> FALSE, sent_count |-> 0, failed_count |-> 0]]
    /\ session = [u \in UserIds |-> NoData]
    /\ campaigns = <<>>
    /\ recipients = <<>>
    /\ email_log = <<>>
    /\ runs = <<>>
    /\ smtp_env = FALSE

IdleCsv ==
    /\ csv_in = [decodable |-> TRUE, cols |-> {"email"}, rows |-> <<>>]
    /\ csv_out = [done |-> FALSE, rows |-> <<>>, message |-> "", n |-> 0]

IdleMem ==
    /\ user_stats = [plan |-> "free", emails_today |-> 0, total_emails |-> 0, last_reset |-> 1]
    /\ emails_history = <<>>
    /\ smtp_accounts = <<>>
    /\ transport = <<>>

IdleSmtp == smtp = [pc |-> "idle"]

IdleLetter == letter = [pc |-> "idle"]

IdlePremium == premium_requests = <<>>

----------------------------------------------------------------------------
(* Spec: the dispatcher of the database variant.  User 1 is the seeded     *)
(* admin; user 2 is on the free plan, has 1..Headroom sends left today and *)
(* has composed one campaign from an accepted upload of 1..MaxRows rows.   *)

\* csv_data of an accepted upload of n rows
DataOf(n) == parse_csv(FileOf([i \in 1..n |-> Row(Addr(i))])).rows

InitDb(composed, left) ==
    /\ today = 1
    /\ users = [u \in UserIds |-> IF u = 1 THEN [plan |-> "premium", is_admin |-> TRUE]
                                  ELSE [plan |-> "free", is_admin |-> FALSE]]
    /\ quota = [u \in UserIds |->
                  IF u = 1 THEN [present |-> FALSE, sent_count |-> 0, failed_count |-> 0]
                  ELSE [present |-> TRUE, sent_count |-> FREE_QUOTA - left,
                        failed_count |-> 0]]
    /\ session = [u \in UserIds |-> NoData]
    /\ campaigns = IF composed = 0 THEN <<>> ELSE <<NewCampaign(2, DataOf(composed))>>
    /\ recipients = IF composed = 0 THEN <<>> ELSE NewRecipients(1, DataOf(composed))
    /\ email_log = <<>>
    /\ runs = <<>>
    /\ smtp_env \in BOOLEAN
    /\ resp = NoResp
    /\ IdleCsv
    /\ IdleMem
    /\ IdleSmtp
    /\ IdleLetter
    /\ IdlePremium

Init == \E n \in 1..MaxRows, left \in 1..Headroom : InitDb(n, left)

Next ==
    \/ \E u \in UserIds, id \in 1..(Len(campaigns) + 1) : start_campaign(u, id)
    \/ \E r \in 1..Len(runs) : send_emails(r)

Spec == Init /\ [][Next]_vars

\* SpecSolo: the same program when a campaign is only started while no
\* dispatcher thread is running, so that runs never overlap
NoRunActive == \A r \in 1..Len(runs) : Finished(runs[r])

NextSolo ==
    \/ \E u \in UserIds, id \in 1..(Len(campaigns) + 1) : NoRunActive /\ start_campaign(u, id)
    \/ \E r \in 1..Len(runs) : send_emails(r)

SpecSolo == Init /\ [][NextSolo]_vars

----------------------------------------------------------------------------
(* Properties of the dispatcher *)

CampaignIds == 1..Len(campaigns)
RunIds == 1..Len(runs)

\* the run that was started last has reached the end of send_emails, and
\* the campaign has not been started again since
LastRunDone(r) == r = Len(runs) /\ runs[r].pc = "done"

\* C1: in every reachable state, sent_count + failed_count <= total_recipients
\* for every Campaign
C1_CountersWithinTotal ==
    \A id \in CampaignIds :
        campaigns[id].sent_count + campaigns[id].failed_count
            <= campaigns[id].total_recipients

\* C2: a Recipient that is sent or failed never changes status again
C2_StatusChangesOnce ==
    [][\A i \in 1..Len(recipients) :
          recipients[i].status # "pending" => recipients'[i].status = recipients[i].status]_vars

\* C3: once every dispatcher run has finished, today's sent_count of each
\* user is at most the ceiling of the user's plan
C3_QuotaWithinCeiling ==
    (\A r \in RunIds : runs[r].pc = "done") =>
        \A u \in UserIds : quota[u].sent_count <= LimitOf(users[u].plan)

\* the case C4 is about: a run that had no other run beside it, started with
\* k0 >= 1 sends left and n0 > k0 pending recipients, and has finished
C4_Case(r) ==
    /\ LastRunDone(r)
    /\ runs[r].solo
    /\ runs[r].k0 >= 1
    /\ runs[r].n0 > runs[r].k0

C5_Case(r) ==
    /\ LastRunDone(r)
    /\ runs[r].solo
    /\ runs[r].k0 >= runs[r].n0
    /\ runs[r].refused # {}

\* the error text of a failed submission
SubmissionError == IF smtp_env THEN TransportError ELSE SimulatedError

AllowedTransitions ==
    {<<"draft", "queued">>, <<"queued", "sending">>,
     <<"sending", "completed">>, <<"sending", "paused">>}

\* C6: Campaign.status only changes along draft -> queued -> sending ->
\* {completed, paused}
C6_StatusTransitions ==
    [][\A id \in CampaignIds :
          campaigns'[id].status # campaigns[id].status =>
              <<campaigns[id].status, campaigns'[id].status>> \in AllowedTransitions]_vars

\* a call of send_email_smtp by run r is in progress
TransportCallInProgress(r) == smtp_env /\ runs[r].pc = "send"

\* C11: in no reachable state are two Mail Transport calls in progress at
\* the same time
C11_OneTransportCallAtATime ==
    \A r1, r2 \in RunIds :
        TransportCallInProgress(r1) /\ TransportCallInProgress(r2) => r1 = r2

\* C13: whenever a recipient leaves pending, exactly one EmailLog entry is
\* appended in the same commit, for that recipient, with the recipient's new
\* status and, when failed, its error text
C13_OneLogPerProcessedRecipient ==
    [][\A i \in 1..Len(recipients) :
          (recipients[i].status = "pending" /\ recipients'[i].status # "pending") =>
              /\ Len(email_log') = Len(email_log) + 1
              /\ SubSeq(email_log', 1, Len(email_log)) = email_log
              /\ email_log'[Len(email_log')].recipient = recipients[i].email
              /\ email_log'[Len(email_log')].status = recipients'[i].status
              /\ recipients'[i].status = "failed" =>
                    email_log'[Len(email_log')].error = recipients'[i].error]_vars

\* C14: the counters of a DailyQuota row never decrease, and a commit that
\* carries the increment for a successful send leaves sent_count one above
\* what the row held before it
C14_QuotaCountersNeverLoseAnUpdate ==
    [][/\ \A u \in UserIds :
             /\ quota'[u].sent_count >= quota[u].sent_count
             /\ quota'[u].failed_count >= quota[u].failed_count
       /\ \A r \in RunIds :
             runs'[r].q_used = runs[r].q_used + 1 =>
                 quota'[runs[r].user].sent_count = quota[runs[r].user].sent_count + 1]_vars

\* the recipients run r has dealt with: those before its position in its list
Processed(r) == { runs[r].list[j] : j \in 1..(runs[r].i - 1) }

\* the status the outcome of its submission gives recipient id of run r
StatusByOutcome(r, id) == IF id \in runs[r].ok THEN "sent" ELSE "failed"

\* a step of run r that submits, to a recipient it has submitted before
SubmitsAgain(r) ==
    /\ runs[r].pc = "send"
    /\ runs'[r].pc = "update"
    /\ runs[r].list[runs[r].i] \in runs[r].attempted

C19_RaiseFailsRecipientOnce ==
    [][\A r \in RunIds :
          (runs[r].pc = "except" /\ runs'[r].pc # "except") =>
              LET id == runs[r].list[runs[r].i]
                  c  == runs[r].cid
              IN  /\ runs'[r].pc \in {"check", "finish"}
                  /\ recipients'[id].status = "failed"
                  /\ recipients'[id].error = ExceptionText
                  /\ campaigns'[c].failed_count = campaigns[c].failed_count + 1
                  /\ campaigns'[c].sent_count = campaigns[c].sent_count]_vars

\* run r has left its loop by the break of the quota check
BrokeOnQuota(r) ==
    /\ runs[r].pc = "finish"
    /\ runs[r].i <= Len(runs[r].list)

\* C20: a completed campaign has completed_at set and no pending recipient,
\* and a run that broke out on quota exhaustion ends with the campaign paused
C20_CompletedMeansNonePending ==
    [][/\ \A id \in CampaignIds :
             campaigns'[id].status = "completed" =>
                 /\ campaigns'[id].completed_at
                 /\ \A i \in 1..Len(recipients') :
                       recipients'[i].campaign_id = id => recipients'[i].status # "pending"
       /\ \A r \in RunIds :
             (BrokeOnQuota(r) /\ runs'[r].pc = "done") =>
                 campaigns'[runs[r].cid].status = "paused"]_vars

\* SpecLive: the dispatcher with every started thread scheduled again and
\* again, and every transport call returning
SpecLive ==
    Spec /\ \A r \in 1..MaxRuns : WF_vars(r \in RunIds /\ send_emails(r))

\* run r has stopped before the end of its recipient list
StoppedEarly(r) == Finished(runs[r]) /\ runs[r].i <= Len(runs[r].list)

\* run r stopped by the break of the quota check
StoppedOnQuota(r) == runs[r].pc = "done" /\ runs[r].i <= Len(runs[r].list)

\* C21: every started run finishes, the campaign does not stay queued or
\* sending forever, and a run stops before the end of its list only by
\* the quota pause
C21_EveryRunFinishes ==
    /\ \A r \in 1..MaxRuns : [](r \in RunIds => <>(r \in RunIds /\ runs[r].pc = "done"))
    /\ \A id \in 1..MaxCampaigns :
          []<>(id \in CampaignIds => campaigns[id].status \in {"draft", "completed", "paused"})
    /\ [](\A r \in RunIds : StoppedEarly(r) => StoppedOnQuota(r))

\* SpecStart: the start requests with their answers, each made while no
\* dispatcher thread is running
NextStart ==
    \/ \E u \in UserIds, id \in 1..(Len(campaigns) + 1) : NoRunActive /\ StartRequest(u, id)
    \/ \E r \in 1..Len(runs) : send_emails(r)

SpecStart == Init /\ [][NextStart]_vars

\* C22: a start request answered 403 or 400 launches no run and leaves the
\* campaigns and the recipients as they were
C22_RejectedStartHasNoEffect ==
    [][\A u \in UserIds, id \in CampaignIds :
          (resp'.op = "start_campaign" /\ resp'.code \in {400, 403} /\ StartRequest(u, id)) =>
              /\ runs' = runs
              /\ campaigns' = campaigns
              /\ recipients' = recipients]_vars

\* the owner's start request has been answered 400 for a campaign that an
\* earlier run paused after sending
C22_Witness ==
    /\ resp.op = "start_campaign"
    /\ resp.code = 400
    /\ campaigns[resp.n].status = "paused"
    /\ campaigns[resp.n].sent_count > 0

----------------------------------------------------------------------------
(* SpecUpload: the forms of the database variant that lead to a campaign,  *)
(* /upload and /compose.  User 2 has 0..Headroom sends left today.         *)

InitUpload == \E left \in 0..Headroom : InitDb(0, left)

NextUpload ==
    \/ \E u \in UserIds : UploadNoFile(u)
    \/ \E u \in UserIds, file \in UploadFiles : Upload(u, file)
    \/ \E u \in UserIds : Compose(u)

SpecUpload == InitUpload /\ [][NextUpload]_vars

\* a file with zero valid rows: it is unreadable or empty, has no email
\* column, or no row of it holds an address that is well-formed once trimmed and lower-cased
ZeroValidRows(file) ==
    \/ ~file.decodable
    \/ file.rows = <<>>
    \/ "email" \notin file.cols
    \/ \A i \in 1..Len(file.rows) :
          \/ file.rows[i].email = None
          \/ ~validate_email(lower(strip(file.rows[i].email)))

ZeroValidUploads == {f \in UploadFiles : ZeroValidRows(f)}

RejectionTexts ==
    {"CSV file is empty", "Missing required column: email", "Found valid emails",
     "Error parsing CSV"}

\* C9: an upload of a file with zero valid rows is answered with a rejection
\* that names the reason, stores no csv_data and creates no Campaign and no
\* Recipient; the session, and so what a later compose works on, is as it
\* was before
C9_ZeroRowsRejected ==
    [][\A u \in UserIds, file \in ZeroValidUploads :
          Upload(u, file) =>
              /\ resp'.category = "danger"
              /\ resp'.text \in RejectionTexts
              /\ resp'.n = 0
              /\ session' = session
              /\ campaigns' = campaigns
              /\ recipients' = recipients]_vars

\* witness of C9: a file with zero valid rows was rejected while a session
\* holds csv_data of an earlier upload, and a campaign was composed before
C9_Witness ==
    /\ resp.op = "upload"
    /\ resp.category = "danger"
    /\ resp.text = "Found valid emails"
    /\ \E u \in UserIds : session[u].has
    /\ Len(campaigns) > 0

----------------------------------------------------------------------------
(* SpecCsv: parse_csv on every file of Files *)

InitCsv ==
    /\ today = 1
    /\ IdleDb
    /\ resp = NoResp
    /\ csv_in \in Files
    /\ csv_out = [done |-> FALSE, rows |-> <<>>, message |-> "", n |-> 0]
    /\ IdleMem
    /\ IdleSmtp
    /\ IdleLetter
    /\ IdlePremium

\* rows, message = parse_csv(file)
Parse ==
    /\ ~csv_out.done
    /\ csv_out' = [done |-> TRUE, rows |-> parse_csv(csv_in).rows,
                   message |-> parse_csv(csv_in).message, n |-> parse_csv(csv_in).n]
    /\ UNCHANGED <<today, dbVars, resp, csv_in, memVars, smtp, letter, premium_requests>>

NextCsv == Parse

SpecCsv == InitCsv /\ [][NextCsv]_vars

\* the address of row i as parse_csv compares it
Normal(file, i) == lower(strip(file.rows[i].email))

\* row i holds a well-formed address that no earlier row holds
FirstValid(file, i) ==
    /\ file.rows[i].email # None
    /\ validate_email(Normal(file, i))
    /\ \A j \in 1..(i - 1) :
          file.rows[j].email = None \/ Normal(file, j) # Normal(file, i)

\* the well-formed addresses of a readable file, each once, in file order
FirstOccurrences(file) ==
    IF ~file.decodable \/ "email" \notin file.cols THEN <<>>
    ELSE LET idx == SelectSeq([i \in 1..Len(file.rows) |-> i],
                              LAMBDA i : FirstValid(file, i))
         IN  [k \in 1..Len(idx) |-> Normal(file, idx[k])]

Emails(rows) == [i \in 1..Len(rows) |-> rows[i].email]

NoRepeats(q) == \A i, j \in 1..Len(q) : q[i] = q[j] => i = j

\* C8: the returned rows hold well-formed addresses only, none
\* twice, and the first occurrence of each address of the file, in file order
C8_KeepsEveryFirstOccurrence ==
    csv_out.done =>
        /\ \A i \in 1..Len(csv_out.rows) : validate_email(csv_out.rows[i].email)
        /\ NoRepeats(Emails(csv_out.rows))
        /\ Emails(csv_out.rows) = FirstOccurrences(csv_in)

----------------------------------------------------------------------------
(* SpecMem: the in-memory variant (main.py).  Each request is one step.    *)
(* transport lists the addresses handed to send_email_smtp since the       *)
(* initial state.                                                          *)

\* limit = PAID_LIMIT if user_stats["plan"] == "paid" else FREE_LIMIT
LimitOfPlan(plan) == IF plan = "paid" THEN PAID_LIMIT ELSE FREE_LIMIT

\* a reset that also clears the lifetime counter
ResetClearsTotal(stats, day) ==
    IF stats.last_reset # day
    THEN [stats EXCEPT !.emails_today = 0, !.total_emails = 0, !.last_reset = day]
    ELSE stats

\* the lazy reset of can_send_email (main.py 42-45)
ResetIfNewDay(stats, day) ==
    IF stats.last_reset # day
    THEN [stats EXCEPT !.emails_today = 0, !.last_reset = day]
    ELSE stats

\* a can_send_email that still allows a send when the limit is reached
main_can_send_email_at_limit(stats, day) ==
    [ok    |-> ResetIfNewDay(stats, day).emails_today <= LimitOfPlan(stats.plan),
     stats |-> ResetIfNewDay(stats, day)]

\* can_send_email(): its result and user_stats as it leaves them
main_can_send_email(stats, day) ==
    [ok    |-> ResetIfNewDay(stats, day).emails_today < LimitOfPlan(stats.plan),
     stats |-> ResetIfNewDay(stats, day)]

\* user_stats["emails_today"] += 1; user_stats["total_emails"] += 1
Counted(stats) ==
    [stats EXCEPT !.emails_today = @ + 1, !.total_emails = @ + 1]

HistoryEntry(to_email, success, bulk) ==
    [to_email |-> to_email,
     status   |-> IF success THEN "success" ELSE "failed",
     bulk     |-> bulk]

\* the loop "for acc in smtp_accounts: if acc['id'] == ..."
AccountFound(account_id) ==
    \E i \in 1..Len(smtp_accounts) : smtp_accounts[i].id = account_id

BulkEmailSamples == { Addr(1), Addr(2), <<"b", "a", "d">> }

BulkColSamples == { {"email", "subject"}, {"email"} }

\* the CSV files /api/send/bulk is tried with
BulkFiles ==
    [decodable : BOOLEAN, cols : BulkColSamples,
     rows : SeqsUpTo([email : BulkEmailSamples], MaxRows)]

\* emails_to_send (main.py 252-261): every row of the reader, unless the
\* header lacks email or subject
Collected(file) ==
    IF "email" \in file.cols /\ "subject" \in file.cols THEN file.rows ELSE <<>>

\* a sending loop that does not count a send the transport reports failed
RECURSIVE BulkLoopSkipsFailed(_, _, _, _)
BulkLoopSkipsFailed(rows, outcomes, day, acc) ==
    IF rows = <<>> THEN acc
    ELSE
      LET can == main_can_send_email(acc.stats, day)
          to_email == Head(rows).email
      IN  IF ~can.ok
          THEN BulkLoopSkipsFailed(Tail(rows), Tail(outcomes), day,
                 [acc EXCEPT !.stats = can.stats,
                             !.results = Append(@, [email |-> to_email, status |-> "failed",
                                                    message |-> "Daily limit reached during sending"])])
          ELSE BulkLoopSkipsFailed(Tail(rows), Tail(outcomes), day,
                 [stats     |-> IF Head(outcomes) THEN Counted(can.stats) ELSE can.stats,
                  history   |-> Append(acc.history, HistoryEntry(to_email, Head(outcomes), TRUE)),
                  transport |-> Append(acc.transport, to_email),
                  results   |-> Append(acc.results,
                                  [email |-> to_email,
                                   status |-> IF Head(outcomes) THEN "success" ELSE "failed",
                                   message |-> IF Head(outcomes) THEN "Email sent successfully"
                                               ELSE TransportError])])

\* the sending loop (main.py 271-308), one row per unfolding; acc holds
\* user_stats, emails_history, the transport calls and results
RECURSIVE BulkLoop(_, _, _, _)
BulkLoop(rows, outcomes, day, acc) ==
    IF rows = <<>> THEN acc
    ELSE
      LET can == main_can_send_email(acc.stats, day)
          to_email == Head(rows).email
      IN  IF ~can.ok
          THEN BulkLoop(Tail(rows), Tail(outcomes), day,
                 [acc EXCEPT !.stats = can.stats,
                             !.results = Append(@, [email |-> to_email, status |-> "failed",
                                                    message |-> "Daily limit reached during sending"])])
          ELSE BulkLoop(Tail(rows), Tail(outcomes), day,
                 [stats     |-> Counted(can.stats),
                  history   |-> Append(acc.history, HistoryEntry(to_email, Head(outcomes), TRUE)),
                  transport |-> Append(acc.transport, to_email),
                  results   |-> Append(acc.results,
                                  [email |-> to_email,
                                   status |-> IF Head(outcomes) THEN "success" ELSE "failed",
                                   message |-> IF Head(outcomes) THEN "Email sent successfully"
                                               ELSE TransportError])])

\* POST /api/smtp
add_smtp_account(missing) ==
    /\ Len(smtp_accounts) < MaxAccounts
    /\ IF missing
       THEN /\ resp' = Response("add_smtp_account", 400, "", "Missing field", 0)
            /\ UNCHANGED smtp_accounts
       ELSE /\ smtp_accounts' = Append(smtp_accounts, [id |-> Len(smtp_accounts) + 1])
            /\ resp' = Response("add_smtp_account", 200, "", "SMTP account added successfully",
                                Len(smtp_accounts) + 1)
    /\ UNCHANGED <<today, dbVars, csvVars, user_stats, emails_history, transport, smtp, letter, premium_requests>>

\* validate_email(data['to_email']), for each address a request is tried with
ValidatedSamples == [e \in BulkEmailSamples |-> validate_email(e)]

\* POST /api/send
send_email(missing, to_email, account_id, success) ==
    /\ Len(transport) < MaxSends
    /\ LET can == main_can_send_email(user_stats, today)
       IN  IF missing
           THEN /\ resp' = Response("send_email", 400, "", "Missing field", 0)
                /\ UNCHANGED <<user_stats, emails_history, transport>>
           ELSE IF ~ValidatedSamples[to_email]
           THEN /\ resp' = Response("send_email", 400, "", "Invalid email address", 0)
                /\ UNCHANGED <<user_stats, emails_history, transport>>
           ELSE IF ~can.ok
           THEN /\ resp' = Response("send_email", 400, "", "Daily limit reached!", 0)
                /\ user_stats' = can.stats
                /\ UNCHANGED <<emails_history, transport>>
           ELSE IF ~AccountFound(account_id)
           THEN /\ resp' = Response("send_email", 404, "", "SMTP account not found", 0)
                /\ user_stats' = can.stats
                /\ UNCHANGED <<emails_history, transport>>
           ELSE /\ transport' = Append(transport, to_email)
                /\ user_stats' = Counted(can.stats)
                /\ emails_history' = Append(emails_history, HistoryEntry(to_email, success, FALSE))
                /\ resp' = Response("send_email", 200, "",
                                    IF success THEN "Email sent successfully" ELSE TransportError,
                                    Len(emails_history) + 1)
    /\ UNCHANGED <<today, dbVars, csvVars, smtp_accounts, smtp, letter, premium_requests>>

\* POST /api/send/bulk
send_bulk(has_file, account_id, file, outcomes) ==
    /\ Len(transport) + Len(file.rows) <= MaxSends
    /\ Len(outcomes) = Len(file.rows)
    /\ LET emails_to_send == Collected(file)
           done == BulkLoop(emails_to_send, outcomes, today,
                            [stats |-> user_stats, history |-> emails_history,
                             transport |-> transport, results |-> <<>>])
       IN  IF ~has_file
           THEN /\ resp' = Response("send_bulk", 400, "", "No CSV file uploaded", 0)
                /\ UNCHANGED <<user_stats, emails_history, transport>>
           ELSE IF account_id = 0
           THEN /\ resp' = Response("send_bulk", 400, "", "SMTP account ID required", 0)
                /\ UNCHANGED <<user_stats, emails_history, transport>>
           ELSE IF ~AccountFound(account_id)
           THEN /\ resp' = Response("send_bulk", 404, "", "SMTP account not found", 0)
                /\ UNCHANGED <<user_stats, emails_history, transport>>
           ELSE IF ~file.decodable
           THEN /\ resp' = Response("send_bulk", 500, "", ExceptionText, 0)
                /\ UNCHANGED <<user_stats, emails_history, transport>>
           ELSE IF user_stats.emails_today + Len(emails_to_send) > LimitOfPlan(user_stats.plan)
           THEN /\ resp' = Response("send_bulk", 400, "", "Daily limit would be exceeded", 
                                    Len(emails_to_send))
                /\ UNCHANGED <<user_stats, emails_history, transport>>
           ELSE /\ user_stats' = done.stats
                /\ emails_history' = done.history
                /\ transport' = done.transport
                /\ resp' = Response("send_bulk", 200, "", "Processed emails", Len(done.results))
    /\ UNCHANGED <<today, dbVars, csvVars, smtp_accounts, smtp, letter, premium_requests>>

\* GET /api/stats: the response carries the plan and remaining_today
get_stats ==
    /\ resp' = Response("get_stats", 200, "", user_stats.plan,
                        LimitOfPlan(user_stats.plan) - user_stats.emails_today)
    /\ UNCHANGED <<today, dbVars, csvVars, memVars, smtp, letter, premium_requests>>

\* POST /api/upgrade
upgrade_plan ==
    /\ user_stats' = [user_stats EXCEPT !.plan = "paid"]
    /\ resp' = Response("upgrade_plan", 200, "", "Upgraded to paid plan successfully!", PAID_LIMIT)
    /\ UNCHANGED <<today, dbVars, csvVars, emails_history, smtp_accounts, transport, smtp, letter, premium_requests>>

\* midnight passes
NewDay ==
    /\ today < MaxDay
    /\ today' = today + 1
    /\ UNCHANGED <<dbVars, resp, csvVars, memVars, smtp, letter, premium_requests>>

\* The process as started (nothing sent, no account), or later on its first
\* day: one account, and all but `left` of the free plan's sends made.
InitMem ==
    /\ today = 1
    /\ IdleDb
    /\ resp = NoResp
    /\ IdleCsv
    /\ IdleSmtp
    /\ IdleLetter
    /\ IdlePremium
    /\ transport = <<>>
    /\ \/ /\ user_stats = [plan |-> "free", emails_today |-> 0, total_emails |-> 0,
                           last_reset |-> 1]
          /\ emails_history = <<>>
          /\ smtp_accounts = <<>>
       \/ \E left \in 0..Headroom :
          /\ user_stats = [plan |-> "free", emails_today |-> FREE_LIMIT - left,
                           total_emails |-> FREE_LIMIT - left, last_reset |-> 1]
          /\ emails_history = [i \in 1..(FREE_LIMIT - left) |-> HistoryEntry(Addr(1), TRUE, FALSE)]
          /\ smtp_accounts = <<[id |-> 1]>>

NextMem ==
    \/ \E missing \in BOOLEAN : add_smtp_account(missing)
    \/ \E missing \in BOOLEAN, to_email \in BulkEmailSamples,
          account_id \in 1..(MaxAccounts + 1), success \in BOOLEAN :
          send_email(missing, to_email, account_id, success)
    \/ \E has_file \in BOOLEAN, account_id \in 0..(MaxAccounts + 1), file \in BulkFiles :
          \E outcomes \in [1..Len(file.rows) -> BOOLEAN] :
          send_bulk(has_file, account_id, file, outcomes)
    \/ get_stats
    \/ upgrade_plan
    \/ NewDay

SpecMem == InitMem /\ [][NextMem]_vars

\* the distinct addresses of the file that pass validate_email
DistinctWellFormed(file) ==
    { e \in { file.rows[i].email : i \in 1..Len(file.rows) } : validate_email(e) }

\* C7: an accepted /api/send/bulk request makes as many transport calls as
\* its file, with columns email and subject, holds distinct well-formed
\* addresses
C7_BulkSendsDistinctWellFormed ==
    [][\A has_file \in BOOLEAN, account_id \in 0..(MaxAccounts + 1), file \in BulkFiles :
          \A outcomes \in [1..Len(file.rows) -> BOOLEAN] :
          ( /\ send_bulk(has_file, account_id, file, outcomes)
            /\ resp'.code = 200
            /\ "subject" \in file.cols )
          => Len(transport') - Len(transport) = Cardinality(DistinctWellFormed(file))]_vars

\* SpecSend: the in-memory variant with single sends only (no /api/send/bulk)
NextSend ==
    \/ \E missing \in BOOLEAN : add_smtp_account(missing)
    \/ \E missing \in BOOLEAN, to_email \in BulkEmailSamples,
          account_id \in 1..(MaxAccounts + 1), success \in BOOLEAN :
          send_email(missing, to_email, account_id, success)
    \/ upgrade_plan
    \/ NewDay

SpecSend == InitMem /\ [][NextSend]_vars

\* the number of sends made on calendar day `day`, as user_stats records it:
\* emails_today counts the sends of the day last_reset names
SendsOn(stats, day) == IF stats.last_reset = day THEN stats.emails_today ELSE 0

\* C12: a POST /api/send answered with a 4xx status makes no transport call
\* and leaves emails_history, total_emails and the count of sends of the
\* current day as they were
C12_RejectedSendHasNoEffect ==
    [][\A missing \in BOOLEAN, to_email \in BulkEmailSamples,
          account_id \in 1..(MaxAccounts + 1), success \in BOOLEAN :
          ( /\ resp'.code \in 400..499
            /\ send_email(missing, to_email, account_id, success) )
          => /\ transport' = transport
             /\ emails_history' = emails_history
             /\ user_stats'.total_emails = user_stats.total_emails
             /\ SendsOn(user_stats', today') = SendsOn(user_stats, today)]_vars

\* witness of C12: a request was refused with 404 on the day after the last
\* send, after can_send_email had run its reset
C12_Witness ==
    /\ resp.op = "send_email"
    /\ resp.code = 404
    /\ today = 2
    /\ user_stats.last_reset = 2
    /\ user_stats.total_emails > 0
    /\ transport = <<>>

\* C17: what /api/send, the up-front check of /api/send/bulk and
\* remaining_today of /api/stats compare to the limit is the number of sends
\* made on the current day
C17_DecisionsUseTodaysCount ==
    [][/\ \A has_file \in BOOLEAN, account_id \in 0..(MaxAccounts + 1), file \in BulkFiles :
            \A outcomes \in [1..Len(file.rows) -> BOOLEAN] :
               ( /\ resp'.text = "Daily limit would be exceeded"
                 /\ send_bulk(has_file, account_id, file, outcomes) )
               => SendsOn(user_stats, today) + Len(Collected(file))
                     > LimitOfPlan(user_stats.plan)
       /\ get_stats =>
             resp'.n = LimitOfPlan(user_stats.plan) - SendsOn(user_stats, today)
       /\ \A missing \in BOOLEAN, to_email \in BulkEmailSamples,
             account_id \in 1..(MaxAccounts + 1), success \in BOOLEAN :
               ( /\ resp'.text = "Daily limit reached!"
                 /\ send_email(missing, to_email, account_id, success) )
               => SendsOn(user_stats, today) >= LimitOfPlan(user_stats.plan)]_vars

\* SpecBulk: the in-memory variant's sending requests, single and bulk, one
\* request at a time.  send_bulk collects every row without looking at the
\* address, so the files differ in their number of rows only.
SendSamples == { Addr(1), <<"b", "a", "d">> }

CountFiles ==
    [decodable : BOOLEAN, cols : BulkColSamples,
     rows : SeqsUpTo([email : {Addr(1)}], MaxRows)]

NextBulk ==
    \/ \E missing \in BOOLEAN, to_email \in SendSamples,
          account_id \in 1..(MaxAccounts + 1), success \in BOOLEAN :
          send_email(missing, to_email, account_id, success)
    \/ \E has_file \in BOOLEAN, account_id \in 0..(MaxAccounts + 1), file \in CountFiles :
          \E outcomes \in [1..Len(file.rows) -> BOOLEAN] :
          send_bulk(has_file, account_id, file, outcomes)
    \/ upgrade_plan
    \/ NewDay

SpecBulk == InitMem /\ [][NextBulk]_vars

\* C23: emails_today never exceeds the limit of the current plan, and every
\* transport call, successful or not, is counted
C23_TodayWithinLimit ==
    [][/\ user_stats'.emails_today <= LimitOfPlan(user_stats'.plan)
       /\ user_stats'.total_emails - user_stats.total_emails
             = Len(transport') - Len(transport)]_vars

\* the limit has been reached by a bulk request whose last send failed
C23_Witness ==
    /\ resp.op = "send_bulk"
    /\ resp.code = 200
    /\ resp.n > 0
    /\ user_stats.emails_today = LimitOfPlan(user_stats.plan)
    /\ emails_history[Len(emails_history)].status = "failed"

\* a step of /api/send/bulk that got past the tests of the file, the account
\* and the decoding: it is answered "Processed" or refused by the up-front
\* check.  Only send_bulk answers so, and it leaves the day as it is.
BulkAnswered ==
    /\ today' = today
    /\ resp'.op = "send_bulk"
    /\ resp'.text \in {"Processed emails", "Daily limit would be exceeded"}

\* the requests such a step can be the handling of
BulkAccounts == {a \in 1..MaxAccounts : AccountFound(a)}

DecodableFiles == {f \in CountFiles : f.decodable}

\* C24 as stated: an accepted /api/send/bulk request makes a transport call
\* for every collected row, answers with one result per row and leaves
\* emails_today higher by the number of rows; one refused by the up-front
\* check changes nothing
C24_BulkAddsRowsToEmailsToday ==
    [][BulkAnswered =>
          \A account_id \in BulkAccounts, file \in DecodableFiles :
          \A outcomes \in [1..Len(file.rows) -> BOOLEAN] :
             send_bulk(TRUE, account_id, file, outcomes) =>
                /\ resp'.code = 200 =>
                      /\ Len(transport') - Len(transport) = Len(Collected(file))
                      /\ resp'.n = Len(Collected(file))
                      /\ user_stats'.emails_today
                            = user_stats.emails_today + Len(Collected(file))
                /\ resp'.code # 200 =>
                      /\ transport' = transport
                      /\ user_stats' = user_stats
                      /\ emails_history' = emails_history]_vars

\* C24, amended: the same, with the number of sends of the current day in
\* the place of emails_today, which the first can_send_email of the loop
\* resets when the day has changed
C24_BulkAddsRowsToTodaysCount ==
    [][BulkAnswered =>
          \A account_id \in BulkAccounts, file \in DecodableFiles :
          \A outcomes \in [1..Len(file.rows) -> BOOLEAN] :
             send_bulk(TRUE, account_id, file, outcomes) =>
                /\ resp'.code = 200 =>
                      /\ Len(transport') - Len(transport) = Len(Collected(file))
                      /\ resp'.n = Len(Collected(file))
                      /\ SendsOn(user_stats', today')
                            = SendsOn(user_stats, today) + Len(Collected(file))
                /\ resp'.code # 200 =>
                      /\ transport' = transport
                      /\ user_stats' = user_stats
                      /\ emails_history' = emails_history]_vars

\* a bulk request of two rows was accepted and sent on the day after the
\* earlier sends
C24_Witness ==
    /\ resp.op = "send_bulk"
    /\ resp.code = 200
    /\ resp.n = 2
    /\ today = 2
    /\ user_stats.last_reset = 2
    /\ user_stats.emails_today = 2
    /\ user_stats.total_emails > 2

----------------------------------------------------------------------------
(* SpecSmtp: one call of send_email_smtp, of either variant, stage by      *)
(* stage.  Every stage either completes or raises an Exception.            *)

\* the statements of send_email_smtp in order: app.py 215-234, main.py 54-71;
\* quit is the exit of the "with smtplib.SMTP(...)" block
Stages(variant, html) ==
    IF variant = "app"
    THEN <<"message", "unsubscribe_link", "attach",
           "connect", "starttls", "login", "send_message", "quit">>
    ELSE <<"message", "attach">>
         \o (IF html THEN <<"attach_html">> ELSE <<>>)
         \o <<"context", "connect", "starttls", "login", "send_message", "quit">>

\* a try block that starts at the connection only
InTryFromConnect(variant, stage) ==
    stage \in {"connect", "starttls", "login", "send_message", "quit"}

\* the stage lies in the try block (app.py 213-238, main.py 52-76)
InTry(variant, stage) ==
    stage \in Range(Stages(variant, TRUE))

\* the text returned on success: None in app.py, a sentence in main.py
SuccessText(variant) == IF variant = "app" THEN "None" ELSE "Email sent successfully"

Call(variant, html, to_email) ==
    [pc |-> "run", variant |-> variant, html |-> html, to_email |-> to_email, at |-> 1,
     submitted |-> FALSE, failed |-> "none", result |-> [ok |-> FALSE, text |-> ""]]

InitSmtp ==
    /\ today = 1
    /\ IdleDb
    /\ resp = NoResp
    /\ IdleCsv
    /\ IdleMem
    /\ IdleLetter
    /\ IdlePremium
    /\ \E variant \in {"app", "main"}, html \in BOOLEAN, to_email \in BulkEmailSamples :
          /\ variant = "app" => html
          /\ smtp = Call(variant, html, to_email)

StageOf(call) == Stages(call.variant, call.html)[call.at]

\* the current statement completes; after the last one the function returns
StageCompletes ==
    /\ smtp.pc = "run"
    /\ smtp' = IF smtp.at < Len(Stages(smtp.variant, smtp.html))
               THEN [smtp EXCEPT !.at = @ + 1,
                                 !.submitted = @ \/ StageOf(smtp) = "send_message"]
               ELSE [smtp EXCEPT !.pc = "returned",
                                 !.result = [ok |-> TRUE, text |-> SuccessText(smtp.variant)]]
    /\ UNCHANGED <<today, dbVars, resp, csvVars, memVars, letter, premium_requests>>

\* the current statement raises: "except Exception as e: return False, str(e)"
\* when it lies in the try block, and the exception leaves the function
\* otherwise
StageRaises ==
    /\ smtp.pc = "run"
    /\ smtp' = IF InTry(smtp.variant, StageOf(smtp))
               THEN [smtp EXCEPT !.pc = "returned", !.failed = StageOf(smtp),
                                 !.result = [ok |-> FALSE, text |-> StageOf(smtp)]]
               ELSE [smtp EXCEPT !.pc = "raised", !.failed = StageOf(smtp)]
    /\ UNCHANGED <<today, dbVars, resp, csvVars, memVars, letter, premium_requests>>

NextSmtp == StageCompletes \/ StageRaises

SpecSmtp == InitSmtp /\ [][NextSmtp]_vars

\* C10: send_email_smtp never raises to its caller; a failure at any stage
\* makes it return (False, the error's text); it returns (True, _) only
\* when the submission step completed
C10_NeverRaises ==
    /\ smtp.pc # "raised"
    /\ smtp.pc = "returned" =>
          /\ smtp.failed # "none" => smtp.result = [ok |-> FALSE, text |-> smtp.failed]
          /\ smtp.result.ok => smtp.submitted /\ smtp.failed = "none"

\* witness of C10: message construction failed and the call returned
C10_Witness ==
    /\ smtp.pc = "returned"
    /\ smtp.failed = "message"
    /\ ~smtp.result.ok

----------------------------------------------------------------------------
(* SpecLetter: the personalisation of one text by send_emails (app.py      *)
(* 557-572), character by character.                                       *)

\* the keys of vars_map
KeyName        == <<"{", "{", "n", "a", "m", "e", "}", "}">>
KeyEmail       == <<"{", "{", "e", "m", "a", "i", "l", "}", "}">>
KeyCompany     == <<"{", "{", "c", "o", "m", "p", "a", "n", "y", "}", "}">>
KeyCity        == <<"{", "{", "c", "i", "t", "y", "}", "}">>
KeyUsername    == <<"{", "{", "u", "s", "e", "r", ".", "u", "s", "e", "r", "n", "a", "m", "e", "}", "}">>
KeyUnsubscribe == <<"{", "{", "u", "n", "s", "u", "b", "s", "c", "r", "i", "b", "e", "_",
                    "l", "i", "n", "k", "}", "}">>

\* f'https://{request.host}/unsubscribe/{recipient.email}', the host being h
UnsubscribeLink(email) ==
    <<"h", "t", "t", "p", "s", ":", "/", "/", "h",
      "/", "u", "n", "s", "u", "b", "s", "c", "r", "i", "b", "e", "/">> \o email

\* vars_map (app.py 561-568) in the order its items are visited; the
\* recipient is a@x.co and the user is called u
vars_map(name, company, city) ==
    << [key |-> KeyName,        value |-> name],
       [key |-> KeyEmail,       value |-> Addr(1)],
       [key |-> KeyCompany,     value |-> company],
       [key |-> KeyCity,        value |-> city],
       [key |-> KeyUsername,    value |-> <<"u">>],
       [key |-> KeyUnsubscribe, value |-> UnsubscribeLink(Addr(1))] >>

\* a match that looks at the two opening braces only
StartsAtBraces(s, i, key) ==
    /\ i + 1 <= Len(s)
    /\ SubSeq(s, i, i + 1) = SubSeq(key, 1, 2)

\* key occurs in s at position i
StartsAt(s, i, key) ==
    /\ i + Len(key) - 1 <= Len(s)
    /\ SubSeq(s, i, i + Len(key) - 1) = key

\* str.replace(key, value): the occurrences of key from the left, not
\* overlapping, each replaced by value
RECURSIVE ReplaceFrom(_, _, _, _)
ReplaceFrom(s, i, key, value) ==
    IF i > Len(s) THEN <<>>
    ELSE IF StartsAt(s, i, key) THEN value \o ReplaceFrom(s, i + Len(key), key, value)
    ELSE <<s[i]>> \o ReplaceFrom(s, i + 1, key, value)

replace(s, key, value) == ReplaceFrom(s, 1, key, value)

\* for key, value in vars_map.items(): body = body.replace(key, value)
RECURSIVE ReplaceVariables(_, _)
ReplaceVariables(text, items) ==
    IF items = <<>> THEN text
    ELSE ReplaceVariables(replace(text, Head(items).key, Head(items).value), Tail(items))

\* the texts a sample template is put together from
Pieces ==
    { KeyName, KeyCompany, KeyCity, <<"H", "i", " ">>, <<"{", "{">>, <<"}", "}">> }

RECURSIVE Concat(_)
Concat(q) == IF q = <<>> THEN <<>> ELSE Head(q) \o Concat(Tail(q))

Templates == { Concat(q) : q \in SeqsUpTo(Pieces, MaxPieces) }

NameValues    == { <<>>, <<"A", "l">>, KeyCompany, KeyName }
CompanyValues == { <<"C", "o">>, KeyCity, KeyName }
CityValues    == { <<"N", "y">>, KeyName }

InitLetter ==
    /\ today = 1
    /\ IdleDb
    /\ resp = NoResp
    /\ IdleCsv
    /\ IdleMem
    /\ IdleSmtp
    /\ IdlePremium
    /\ \E text \in Templates, name \in NameValues, company \in CompanyValues,
          city \in CityValues :
          letter = [pc |-> "new", text |-> text, name |-> name, company |-> company,
                    city |-> city, once |-> <<>>, twice |-> <<>>]

\* the loop of app.py 570-572 on the template
Personalize ==
    /\ letter.pc = "new"
    /\ letter' = [letter EXCEPT
                     !.pc = "once",
                     !.once = ReplaceVariables(letter.text,
                                  vars_map(letter.name, letter.company, letter.city))]
    /\ UNCHANGED <<today, dbVars, resp, csvVars, memVars, smtp, premium_requests>>

\* the same loop on the text it produced
PersonalizeAgain ==
    /\ letter.pc = "once"
    /\ letter' = [letter EXCEPT
                     !.pc = "twice",
                     !.twice = ReplaceVariables(letter.once,
                                   vars_map(letter.name, letter.company, letter.city))]
    /\ UNCHANGED <<today, dbVars, resp, csvVars, memVars, smtp, premium_requests>>

NextLetter == Personalize \/ PersonalizeAgain

SpecLetter == InitLetter /\ [][NextLetter]_vars

\* the placeholder of items that s holds at position i, 0 when there is none
TokenAt(s, i, items) ==
    LET at == { k \in 1..Len(items) :
                  /\ i + Len(items[k].key) - 1 <= Len(s)
                  /\ \A j \in 1..Len(items[k].key) : s[i + j - 1] = items[k].key[j] }
    IN  IF at = {} THEN 0 ELSE CHOOSE k \in at : TRUE

\* s with every placeholder that occurs in s itself replaced by its value
RECURSIVE Substituted(_, _, _)
Substituted(s, i, items) ==
    IF i > Len(s) THEN <<>>
    ELSE IF TokenAt(s, i, items) # 0
         THEN items[TokenAt(s, i, items)].value
              \o Substituted(s, i + Len(items[TokenAt(s, i, items)].key), items)
         ELSE <<s[i]>> \o Substituted(s, i + 1, items)

\* s holds none of the placeholders
NoTokens(s, items) == \A i \in 1..Len(s) : TokenAt(s, i, items) = 0

LetterItems == vars_map(letter.name, letter.company, letter.city)

\* C15: the personalised text is the template with each placeholder
\* occurrence of the template replaced by its value, and nothing else
\* changed; inserted values are not scanned for placeholders
C15_SubstitutionIsNotNested ==
    letter.pc \in {"once", "twice"} =>
        letter.once = Substituted(letter.text, 1, LetterItems)

\* C16: personalising a text that holds none of the placeholders returns it
\* unchanged
C16_TokenFreeTextUnchanged ==
    /\ (letter.pc \in {"once", "twice"} /\ NoTokens(letter.text, LetterItems)) =>
          letter.once = letter.text
    /\ (letter.pc = "twice" /\ NoTokens(letter.once, LetterItems)) =>
          letter.twice = letter.once

\* witness of C16: a template with placeholders was personalised, the result
\* holds no placeholder (but braces), and was personalised again
C16_Witness ==
    /\ letter.pc = "twice"
    /\ ~NoTokens(letter.text, LetterItems)
    /\ NoTokens(letter.once, LetterItems)
    /\ \E i \in 1..Len(letter.once) : letter.once[i] = "{"

----------------------------------------------------------------------------
(* SpecPremium: accounts and premium requests of the database variant      *)
(* (app.py 300-341, 839-900).  users starts with the admin init_db seeds   *)
(* and grows by /signup; u is the user logged in to the request.           *)

AdminEmail == <<"a", "d", "m", "i", "n", "@", "e", "m", "a", "i", "l", "s", "a", "a", "s",
                ".", "c", "o", "m">>

AdminName == <<"a", "d", "m", "i", "n">>

UsernameSamples == { <<"a", "l">>, <<"b", "o", "b">>, <<"e", "v", "e">> }

\* the admin user of init_db (app.py 920-928)
SeededAdmin ==
    [plan |-> "premium", is_admin |-> TRUE, username |-> AdminName, email |-> AdminEmail]

\* the checks of signup (app.py 311-329): no error is collected
SignupAccepted(username, email, password_ok) ==
    /\ Len(username) >= 3
    /\ ValidatedSamples[email]
    /\ password_ok
    /\ \A v \in DOMAIN users : users[v].email # email /\ users[v].username # username

\* POST /signup by a visitor who is not logged in
signup(username, email, password_ok) ==
    LET id == Cardinality(DOMAIN users) + 1
    IN  /\ IF ~SignupAccepted(username, email, password_ok)
           THEN /\ resp' = Response("signup", 302, "danger", "errors", 0)
                /\ UNCHANGED users
           ELSE /\ id <= MaxSignups + 1
                /\ users' = [v \in DOMAIN users \cup {id} |->
                               IF v = id THEN [plan |-> "free", is_admin |-> FALSE,
                                               username |-> username, email |-> email]
                               ELSE users[v]]
                /\ resp' = Response("signup", 302, "success", "Account created successfully!", id)
        /\ UNCHANGED <<today, quota, session, campaigns, recipients, email_log, runs, smtp_env,
                       csvVars, memVars, smtp, letter, premium_requests>>

\* PremiumRequest.query.filter_by(user_id=user.id, status='pending').first()
PendingRequest(u) ==
    \E i \in 1..Len(premium_requests) :
        premium_requests[i].user_id = u /\ premium_requests[i].status = "pending"

\* POST /upgrade (app.py 868-900)
upgrade(u, reason_len) ==
    /\ IF users[u].plan = "premium"
       THEN /\ resp' = Response("upgrade", 302, "info", "You are already a premium user!", 0)
            /\ UNCHANGED premium_requests
       ELSE IF reason_len < 10
       THEN /\ resp' = Response("upgrade", 302, "danger", "Please provide a detailed reason", 0)
            /\ UNCHANGED premium_requests
       ELSE IF PendingRequest(u)
       THEN /\ resp' = Response("upgrade", 302, "warning",
                                "You already have a pending upgrade request", 0)
            /\ UNCHANGED premium_requests
       ELSE /\ Len(premium_requests) < MaxRequests
            /\ premium_requests' = Append(premium_requests, [user_id |-> u, status |-> "pending"])
            /\ resp' = Response("upgrade", 302, "success", "Upgrade request submitted!",
                                Len(premium_requests) + 1)
    /\ UNCHANGED <<today, dbVars, csvVars, memVars, smtp, letter>>

\* admin_required (app.py 143-152): what a user who is no admin is answered
AdminRequired(op) ==
    /\ resp' = Response(op, 302, "danger", "Admin access required", 0)
    /\ UNCHANGED <<today, dbVars, csvVars, memVars, smtp, letter, premium_requests>>

\* get_or_404 of a request id that does not exist
RequestNotFound(op) ==
    /\ resp' = Response(op, 404, "", "Not Found", 0)
    /\ UNCHANGED <<today, dbVars, csvVars, memVars, smtp, letter, premium_requests>>

\* GET /admin/approve/<id> (app.py 839-852)
approve_upgrade(u, id) ==
    IF ~users[u].is_admin THEN AdminRequired("approve_upgrade")
    ELSE IF id \notin 1..Len(premium_requests) THEN RequestNotFound("approve_upgrade")
    ELSE /\ users' = [users EXCEPT ![premium_requests[id].user_id].plan = "premium"]
         /\ premium_requests' = [premium_requests EXCEPT ![id].status = "approved"]
         /\ resp' = Response("approve_upgrade", 302, "success", "Premium access granted", id)
         /\ UNCHANGED <<today, quota, session, campaigns, recipients, email_log, runs, smtp_env,
                        csvVars, memVars, smtp, letter>>

\* GET /admin/reject/<id> (app.py 854-864)
reject_upgrade(u, id) ==
    IF ~users[u].is_admin THEN AdminRequired("reject_upgrade")
    ELSE IF id \notin 1..Len(premium_requests) THEN RequestNotFound("reject_upgrade")
    ELSE /\ premium_requests' = [premium_requests EXCEPT ![id].status = "rejected"]
         /\ resp' = Response("reject_upgrade", 302, "info", "Upgrade request rejected", id)
         /\ UNCHANGED <<today, dbVars, csvVars, memVars, smtp, letter>>

\* the database after init_db
InitPremium ==
    /\ today = 1
    /\ users = [v \in {1} |-> SeededAdmin]
    /\ quota = [v \in UserIds |-> [present |-> FALSE, sent_count |-> 0, failed_count |-> 0]]
    /\ session = [v \in UserIds |-> NoData]
    /\ campaigns = <<>>
    /\ recipients = <<>>
    /\ email_log = <<>>
    /\ runs = <<>>
    /\ smtp_env = FALSE
    /\ resp = NoResp
    /\ IdleCsv
    /\ IdleMem
    /\ IdleSmtp
    /\ IdleLetter
    /\ premium_requests = <<>>

NextPremium ==
    \/ \E username \in UsernameSamples, email \in BulkEmailSamples, password_ok \in BOOLEAN :
          signup(username, email, password_ok)
    \/ \E u \in DOMAIN users, reason_len \in {9, 10} : upgrade(u, reason_len)
    \/ \E u \in DOMAIN users, id \in 1..(Len(premium_requests) + 1) : approve_upgrade(u, id)
    \/ \E u \in DOMAIN users, id \in 1..(Len(premium_requests) + 1) : reject_upgrade(u, id)

SpecPremium == InitPremium /\ [][NextPremium]_vars

\* user u has a PremiumRequest whose status is approved
HasApprovedRequest(u) ==
    \E i \in 1..Len(premium_requests) :
        premium_requests[i].user_id = u /\ premium_requests[i].status = "approved"

\* C25: a user other than the seeded admin has plan premium only with an
\* approved PremiumRequest, and a request that was approved or rejected
\* keeps that status
C25_PremiumOnlyByApprovedRequest ==
    [][/\ \A u \in DOMAIN users' :
             (u # 1 /\ users'[u].plan = "premium") => HasApprovedRequest(u)'
       /\ \A i \in 1..Len(premium_requests) :
             premium_requests[i].status \in {"approved", "rejected"} =>
                 premium_requests'[i].status = premium_requests[i].status]_vars

====
